---- MODULE Spec2Model ----
(***************************************************************************)
(* Model of rrmngmnt/nmcli.py: the NMCLI service builds nmcli command      *)
(* lines, hands them to the host executor and parses the output.           *)
(*                                                                         *)
(* Text (a Python str) is a sequence of atoms.  An atom is either a        *)
(* separator character (" ", ":", "\n") or a word; a word holds no         *)
(* whitespace, and a word of executor output holds no ":" either.          *)
(* Concatenation of str is concatenation of sequences; the empty str is    *)
(* << >>.  Inputs are quote-free and backslash-free, so shlex.split is     *)
(* splitting on whitespace.                                                *)
(*                                                                         *)
(* A Python value is a tagged record: None, a bool, an int, a str or a     *)
(* dict.                                                                   *)
(***************************************************************************)
EXTENDS Integers, Sequences, FiniteSets, TLC

VARIABLES pc, op, args, command, calls, execOut, status, result, exc, log,
          device_names, devices

vars == <<pc, op, args, command, calls, execOut, status, result, exc, log,
          device_names, devices>>

-----------------------------------------------------------------------------
(* Bounds of the model. *)

\* longest executor output (in atoms) of the connection listing
MaxConnOutLen == 7
\* longest executor output (in atoms) of the device name listing
MaxNamesOutLen == 3
\* longest executor output (in atoms) of a device detail call
MaxDetailOutLen == 4

-----------------------------------------------------------------------------
(* Python values. *)

None == [k |-> "none"]
PyBool(b) == [k |-> "bool", v |-> b]
PyInt(i) == [k |-> "int", v |-> i]
PyStr(s) == [k |-> "str", v |-> s]
\* a dict, as the sequence of its items in insertion order
PyDict(items) == [k |-> "dict", v |-> items]

\* a str holding the single word w
Word(w) == PyStr(<<w>>)

IsNone(x) == x.k = "none"

\* Python truth value testing, as used by `if x:`
Truthy(x) ==
    CASE x.k = "none" -> FALSE
      [] x.k = "bool" -> x.v
      [] x.k = "int"  -> x.v # 0
      [] x.k = "str"  -> x.v # << >>
      [] x.k = "dict" -> x.v # << >>

\* "{v}".format(v=x): the text a value is rendered as
Format(x) ==
    CASE x.k = "none" -> <<"None">>
      [] x.k = "bool" -> IF x.v THEN <<"True">> ELSE <<"False">>
      [] x.k = "int"  -> <<ToString(x.v)>>
      [] x.k = "str"  -> x.v

-----------------------------------------------------------------------------
(* Module constants. *)

SP == " "
NL == "\n"
COLON == ":"

Objects == [CONNECTION |-> "connection", DEVICE |-> "device"]
Operations == [ADD |-> "add", MODIFY |-> "modify", DELETE |-> "delete",
               SHOW |-> "show"]
NmGeneralSettings == [DEVICE |-> "GENERAL.DEVICE", TYPE |-> "GENERAL.TYPE",
                      MAC |-> "GENERAL.HWADDR", MTU |-> "GENERAL.MTU"]
Types == [ETHERNET |-> "ethernet", BOND |-> "bond", VLAN |-> "vlan",
          DUMMY |-> "dummy"]
EthernetOptions == [MAC |-> "mac", MTU |-> "mtu"]
BondOptions == [MODE |-> "mode", MIIMON |-> "miimon"]
SlaveOptions == [MASTER |-> "master"]
VlanOptions == [DEV |-> "dev", ID |-> "id", MTU |-> "mtu"]

-----------------------------------------------------------------------------
(* Text helpers: str.splitlines, str.split(":"), shlex.split. *)

RECURSIVE JoinAtoms(_)
\* the atoms of a piece of text glued into one TLA+ string
JoinAtoms(t) == IF t = << >> THEN "" ELSE Head(t) \o JoinAtoms(Tail(t))

RECURSIVE SplitOn(_, _, _)
\* t.split(sep): the pieces of t between occurrences of sep, empty ones kept;
\* cur is the piece being collected
SplitOn(t, sep, cur) ==
    IF t = << >> THEN <<cur>>
    ELSE IF Head(t) = sep THEN <<cur>> \o SplitOn(Tail(t), sep, << >>)
    ELSE SplitOn(Tail(t), sep, Append(cur, Head(t)))

\* line.split(":")
SplitColon(line) == SplitOn(line, COLON, << >>)

\* out.splitlines(): like split on the line break, but the empty text has no
\* line and a final line break does not open another line
SplitLines(t) ==
    IF t = << >> THEN << >>
    ELSE IF t[Len(t)] = NL THEN SplitOn(SubSeq(t, 1, Len(t) - 1), NL, << >>)
    ELSE SplitOn(t, NL, << >>)

\* the non-empty elements of a sequence of texts, in order
NonEmpty(ss) == SelectSeq(ss, LAMBDA s : s # << >>)

\* shlex.split(command) on quote-free text: the maximal runs of
\* non-whitespace characters, each as one argument
ShlexSplit(cmd) ==
    LET sepd == [i \in 1..Len(cmd) |-> IF cmd[i] = NL THEN SP ELSE cmd[i]]
        runs == NonEmpty(SplitOn(sepd, SP, << >>))
    IN  [i \in 1..Len(runs) |-> JoinAtoms(runs[i])]

-----------------------------------------------------------------------------
(* Command builders. *)

\* the text " <keyword> <value>" one option adds to a command
Option(keyword, value) == <<SP, keyword, SP>> \o Format(value)

\* ip_options_builder without the test that guards the last option
ip_options_builder_unguarded_gw(ipv4_addr, ipv4_gw, ipv4_method, ipv6_addr, ipv6_gw, ipv6_method) ==
    LET c0 == << >>
        c1 == IF Truthy(ipv4_method)
              THEN c0 \o Option("ipv4.method", ipv4_method) ELSE c0
        c2 == IF Truthy(ipv6_method)
              THEN c1 \o Option("ipv6.method", ipv6_method) ELSE c1
        c3 == IF Truthy(ipv4_addr)
              THEN c2 \o Option("ipv4.addresses", ipv4_addr) ELSE c2
        c4 == IF Truthy(ipv4_gw)
              THEN c3 \o Option("ipv4.gateway", ipv4_gw) ELSE c3
        c5 == IF Truthy(ipv6_addr)
              THEN c4 \o Option("ipv6.addresses", ipv6_addr) ELSE c4
    IN  c5 \o Option("ipv6.gateway", ipv6_gw)

\* NMCLI._ip_options_builder
ip_options_builder(ipv4_addr, ipv4_gw, ipv4_method, ipv6_addr, ipv6_gw, ipv6_method) ==
    LET c0 == << >>
        c1 == IF Truthy(ipv4_method)
              THEN c0 \o Option("ipv4.method", ipv4_method) ELSE c0
        c2 == IF Truthy(ipv6_method)
              THEN c1 \o Option("ipv6.method", ipv6_method) ELSE c1
        c3 == IF Truthy(ipv4_addr)
              THEN c2 \o Option("ipv4.addresses", ipv4_addr) ELSE c2
        c4 == IF Truthy(ipv4_gw)
              THEN c3 \o Option("ipv4.gateway", ipv4_gw) ELSE c3
        c5 == IF Truthy(ipv6_addr)
              THEN c4 \o Option("ipv6.addresses", ipv6_addr) ELSE c4
        c6 == IF Truthy(ipv6_gw)
              THEN c5 \o Option("ipv6.gateway", ipv6_gw) ELSE c5
    IN  c6

\* _get_str_value: "yes" if value is True else "no"
get_str_value(value) == IF value = PyBool(TRUE) THEN Word("yes") ELSE Word("no")

\* common_options_builder testing the truth value of auto_connect and save
\* where the code tests `is not None`
common_options_builder_truthy(con_type, con_name, ifname, auto_connect, save) ==
    LET c0 == <<"type", SP>> \o Format(con_type)
              \o <<SP, "con-name", SP>> \o Format(con_name)
              \o <<SP, "ifname", SP>> \o Format(ifname)
        c1 == IF Truthy(auto_connect)
              THEN c0 \o Option("autoconnect", get_str_value(auto_connect))
              ELSE c0
        c2 == IF Truthy(save)
              THEN c1 \o Option("save", get_str_value(save))
              ELSE c1
    IN  c2

\* NMCLI._common_options_builder
common_options_builder(con_type, con_name, ifname, auto_connect, save) ==
    LET c0 == <<"type", SP>> \o Format(con_type)
              \o <<SP, "con-name", SP>> \o Format(con_name)
              \o <<SP, "ifname", SP>> \o Format(ifname)
        c1 == IF ~IsNone(auto_connect)
              THEN c0 \o Option("autoconnect", get_str_value(auto_connect))
              ELSE c0
        c2 == IF ~IsNone(save)
              THEN c1 \o Option("save", get_str_value(save))
              ELSE c1
    IN  c2

RECURSIVE TypeOptionsText(_)
\* the loop over type_options.items(): " <property> <value>" per item
TypeOptionsText(items) ==
    IF items = << >> THEN << >>
    ELSE Option(Head(items).key, Head(items).value)
         \o TypeOptionsText(Tail(items))

\* the keyword arguments nmcli_cmd_builder leaves at their default
BuilderDefaults ==
    [con_type |-> None, ifname |-> None, auto_connect |-> None, save |-> None,
     ipv4_method |-> None, ipv4_addr |-> None, ipv4_gw |-> None,
     ipv6_method |-> None, ipv6_addr |-> None, ipv6_gw |-> None,
     type_options |-> None]

\* nmcli_cmd_builder appending the IP options before the type options
nmcli_cmd_builder_ip_first(p) ==
    LET c0 == <<"nmcli", SP>> \o Format(p.object_type)
              \o <<SP>> \o Format(p.operation)
        c1 == IF p.operation = Word(Operations.DELETE)
                 \/ p.operation = Word(Operations.MODIFY)
              THEN c0 \o <<SP>> \o Format(p.name)
              ELSE IF p.operation = Word(Operations.ADD)
              THEN c0 \o <<SP>>
                   \o common_options_builder(p.con_type, p.name, p.ifname,
                                              p.auto_connect, p.save)
              ELSE c0
        c2 == c1 \o ip_options_builder(p.ipv4_addr, p.ipv4_gw, p.ipv4_method,
                                        p.ipv6_addr, p.ipv6_gw, p.ipv6_method)
    IN  IF Truthy(p.type_options)
        THEN c2 \o TypeOptionsText(p.type_options.v)
        ELSE c2

\* nmcli_cmd_builder appending the identifier for DELETE only
nmcli_cmd_builder_delete_only(p) ==
    LET c0 == <<"nmcli", SP>> \o Format(p.object_type)
              \o <<SP>> \o Format(p.operation)
        c1 == IF p.operation = Word(Operations.DELETE)
              THEN c0 \o <<SP>> \o Format(p.name)
              ELSE IF p.operation = Word(Operations.ADD)
              THEN c0 \o <<SP>>
                   \o common_options_builder(p.con_type, p.name, p.ifname,
                                              p.auto_connect, p.save)
              ELSE c0
        c2 == IF Truthy(p.type_options)
              THEN c1 \o TypeOptionsText(p.type_options.v)
              ELSE c1
    IN  c2 \o ip_options_builder(p.ipv4_addr, p.ipv4_gw, p.ipv4_method,
                                  p.ipv6_addr, p.ipv6_gw, p.ipv6_method)

\* NMCLI._nmcli_cmd_builder; p holds the keyword arguments
nmcli_cmd_builder(p) ==
    LET c0 == <<"nmcli", SP>> \o Format(p.object_type)
              \o <<SP>> \o Format(p.operation)
        c1 == IF p.operation = Word(Operations.DELETE)
                 \/ p.operation = Word(Operations.MODIFY)
              THEN c0 \o <<SP>> \o Format(p.name)
              ELSE IF p.operation = Word(Operations.ADD)
              THEN c0 \o <<SP>>
                   \o common_options_builder(p.con_type, p.name, p.ifname,
                                              p.auto_connect, p.save)
              ELSE c0
        c2 == IF Truthy(p.type_options)
              THEN c1 \o TypeOptionsText(p.type_options.v)
              ELSE c1
    IN  c2 \o ip_options_builder(p.ipv4_addr, p.ipv4_gw, p.ipv4_method,
                                  p.ipv6_addr, p.ipv6_gw, p.ipv6_method)

\* a (key, value) item of a dict
Item(key, value) == [key |-> key, value |-> value]

\* type_options of add_ethernet_connection
EthernetTypeOptions(mac, mtu) ==
    LET t0 == << >>
        t1 == IF Truthy(mac) THEN Append(t0, Item(EthernetOptions.MAC, mac))
              ELSE t0
        t2 == IF Truthy(mtu) THEN Append(t1, Item(EthernetOptions.MTU, mtu))
              ELSE t1
    IN  PyDict(t2)

\* type_options of add_bond
BondTypeOptions(mode, miimon) ==
    LET t0 == << >>
        t1 == IF Truthy(mode) THEN Append(t0, Item(BondOptions.MODE, mode))
              ELSE t0
        t2 == IF Truthy(miimon)
              THEN Append(t1, Item(BondOptions.MIIMON, miimon))
              ELSE t1
    IN  PyDict(t2)

\* type_options of add_slave
SlaveTypeOptions(master) == PyDict(<<Item(SlaveOptions.MASTER, master)>>)

\* type_options of add_vlan with the VLAN id tested for truth like mtu
VlanTypeOptions_truthy_id(dev, vlan_id, mtu) ==
    LET t0 == <<Item(VlanOptions.DEV, dev)>>
        t1 == IF Truthy(vlan_id)
              THEN Append(t0, Item(VlanOptions.ID, vlan_id))
              ELSE t0
        t2 == IF Truthy(mtu) THEN Append(t1, Item(VlanOptions.MTU, mtu))
              ELSE t1
    IN  PyDict(t2)

\* type_options of add_vlan
VlanTypeOptions(dev, vlan_id, mtu) ==
    LET t0 == <<Item(VlanOptions.DEV, dev), Item(VlanOptions.ID, vlan_id)>>
        t1 == IF Truthy(mtu) THEN Append(t0, Item(VlanOptions.MTU, mtu))
              ELSE t0
    IN  PyDict(t1)

\* the keyword arguments shared by the add operations that take IP options
IpArgs(a) ==
    [ipv4_method |-> a.ipv4_method, ipv4_addr |-> a.ipv4_addr,
     ipv4_gw |-> a.ipv4_gw, ipv6_method |-> a.ipv6_method,
     ipv6_addr |-> a.ipv6_addr, ipv6_gw |-> a.ipv6_gw]

\* r1 with the fields of r2 added or replaced
Override(r1, r2) ==
    [f \in DOMAIN r1 \cup DOMAIN r2 |->
        IF f \in DOMAIN r2 THEN r2[f] ELSE r1[f]]

\* the command add_ethernet_connection builds from its arguments a
EthernetCommand(a) ==
    nmcli_cmd_builder(Override(Override(BuilderDefaults, IpArgs(a)),
        [object_type |-> Word(Objects.CONNECTION),
         operation |-> Word(Operations.ADD),
         con_type |-> Word(Types.ETHERNET),
         name |-> a.name, ifname |-> a.ifname,
         auto_connect |-> a.auto_connect, save |-> a.save,
         type_options |-> EthernetTypeOptions(a.mac, a.mtu)]))

\* the command add_bond builds from its arguments a
BondCommand(a) ==
    nmcli_cmd_builder(Override(Override(BuilderDefaults, IpArgs(a)),
        [object_type |-> Word(Objects.CONNECTION),
         operation |-> Word(Operations.ADD),
         con_type |-> Word(Types.BOND),
         name |-> a.con_name, ifname |-> a.ifname,
         auto_connect |-> a.auto_connect, save |-> a.save,
         type_options |-> BondTypeOptions(a.mode, a.miimon)]))

\* the command add_slave builds from its arguments a
SlaveCommand(a) ==
    nmcli_cmd_builder(Override(BuilderDefaults,
        [object_type |-> Word(Objects.CONNECTION),
         operation |-> Word(Operations.ADD),
         con_type |-> a.slave_type,
         name |-> a.con_name, ifname |-> a.ifname,
         auto_connect |-> a.auto_connect, save |-> a.save,
         type_options |-> SlaveTypeOptions(a.master)]))

\* the command add_vlan builds from its arguments a
VlanCommand(a) ==
    nmcli_cmd_builder(Override(Override(BuilderDefaults, IpArgs(a)),
        [object_type |-> Word(Objects.CONNECTION),
         operation |-> Word(Operations.ADD),
         con_type |-> Word(Types.VLAN),
         name |-> a.con_name, ifname |-> a.dev,
         auto_connect |-> a.auto_connect, save |-> a.save,
         type_options |-> VlanTypeOptions(a.dev, a.vlan_id, a.mtu)]))

\* the command add_dummy builds from its arguments a
DummyCommand(a) ==
    nmcli_cmd_builder(Override(Override(BuilderDefaults, IpArgs(a)),
        [object_type |-> Word(Objects.CONNECTION),
         operation |-> Word(Operations.ADD),
         con_type |-> Word(Types.DUMMY),
         name |-> a.con_name, ifname |-> a.ifname,
         auto_connect |-> a.auto_connect, save |-> a.save]))

\* the command modify_connection / modify_device builds
ModifyCommand(object_type, name, properties) ==
    nmcli_cmd_builder(Override(BuilderDefaults,
        [object_type |-> Word(object_type),
         operation |-> Word(Operations.MODIFY),
         name |-> name, type_options |-> properties]))

\* the command delete_connection builds
DeleteCommand(connection) ==
    nmcli_cmd_builder(Override(BuilderDefaults,
        [object_type |-> Word(Objects.CONNECTION),
         operation |-> Word(Operations.DELETE),
         name |-> connection]))

\* the command of get_all_connections: "nmcli -t connection show"
ConnectionsCommand ==
    <<"nmcli", SP, "-t", SP, Objects.CONNECTION, SP, Operations.SHOW>>

\* the command of the name listing of get_all_devices
DeviceNamesCommand ==
    <<"nmcli", SP, "-g", SP, NmGeneralSettings.DEVICE, SP,
      Objects.DEVICE, SP, Operations.SHOW>>

\* the command of the detail call of get_all_devices for one device name
DeviceDetailCommand(name) ==
    <<"nmcli", SP, "-e", SP, "no", SP, "-g", SP,
      NmGeneralSettings.TYPE \o "," \o NmGeneralSettings.MAC \o ","
        \o NmGeneralSettings.MTU, SP,
      Objects.DEVICE, SP, Operations.SHOW, SP>> \o name

\* the command of set_connection_state
StateCommand(connection, state) ==
    <<"nmcli", SP, Objects.CONNECTION, SP>> \o Format(state)
        \o <<SP>> \o Format(connection)

-----------------------------------------------------------------------------
(* Execution. *)

\* no exception is pending
NoExc == [type |-> "none"]
\* nothing was returned (the call has not returned, or it raised)
NoResult == [k |-> "noresult"]
\* a list, as the sequence of its elements
PyList(elems) == [k |-> "list", v |-> elems]

IndexError == [type |-> "IndexError"]

\* exec_command that returns the output whatever the exit code
exec_command_ignores_rc(cmd, r) ==
    LET split == ShlexSplit(cmd)
    IN  [call   |-> [argv |-> split, rc |-> r.rc, out |-> r.out,
                     err |-> r.err],
         raised |-> FALSE,
         out    |-> PyStr(r.out),
         exc    |-> [type |-> "CommandExecutionFailure",
                     executor |-> "executor", cmd |-> split,
                     rc |-> r.rc, err |-> r.err],
         logged |-> [command |-> cmd, rc |-> r.rc, out |-> r.out,
                     err |-> r.err]]

\* exec_command that raises with the command string in place of the
\* argument vector
exec_command_cmd_unsplit(cmd, r) ==
    LET split == ShlexSplit(cmd)
    IN  [call   |-> [argv |-> split, rc |-> r.rc, out |-> r.out,
                     err |-> r.err],
         raised |-> r.rc # 0,
         out    |-> PyStr(r.out),
         exc    |-> [type |-> "CommandExecutionFailure",
                     executor |-> "executor", cmd |-> cmd,
                     rc |-> r.rc, err |-> r.err],
         logged |-> [command |-> cmd, rc |-> r.rc, out |-> r.out,
                     err |-> r.err]]

\* NMCLI._exec_command(command) when the executor answers r = (rc, out, err):
\* the round trip made, whether it raises, the value returned, the exception
\* raised and the record logged
exec_command(cmd, r) ==
    LET split == ShlexSplit(cmd)
    IN  [call   |-> [argv |-> split, rc |-> r.rc, out |-> r.out,
                     err |-> r.err],
         raised |-> r.rc # 0,
         out    |-> PyStr(r.out),
         exc    |-> [type |-> "CommandExecutionFailure",
                     executor |-> "executor", cmd |-> split,
                     rc |-> r.rc, err |-> r.err],
         logged |-> [command |-> cmd, rc |-> r.rc, out |-> r.out,
                     err |-> r.err]]

\* ConnectionRecord with the uuid and type fields taken from each other's
\* position
ConnectionRecord_swapped(properties) ==
    [name |-> properties[1], uuid |-> properties[3],
     type |-> properties[2], device |-> properties[4]]

\* the connection record get_all_connections makes of the fields of one line
ConnectionRecord(properties) ==
    [name |-> properties[1], uuid |-> properties[2],
     type |-> properties[3], device |-> properties[4]]

\* the loop of get_all_connections making an empty record of a line with
\* fewer than four fields where the code indexes the fields
ParseConnections_pads_short(out) ==
    LET lines == SplitLines(out)
        props == [i \in 1..Len(lines) |-> SplitColon(lines[i])]
        empty == <<(<< >>), (<< >>), (<< >>), (<< >>)>>
    IN  [raised |-> FALSE,
         value |-> PyList([i \in 1..Len(lines) |->
                              IF Len(props[i]) < 4
                              THEN ConnectionRecord(empty)
                              ELSE ConnectionRecord(props[i])])]

\* the loop of get_all_connections over the lines of the listing: the list
\* of records, or IndexError at the first line with fewer than four fields
ParseConnections(out) ==
    LET lines == SplitLines(out)
        props == [i \in 1..Len(lines) |-> SplitColon(lines[i])]
    IN  IF \E i \in 1..Len(lines) : Len(props[i]) < 4
        THEN [raised |-> TRUE, value |-> NoResult]
        ELSE [raised |-> FALSE,
              value |-> PyList([i \in 1..Len(lines) |->
                                   ConnectionRecord(props[i])])]

\* DeviceNames without the filter on blank lines
DeviceNames_keeps_blank(out) == SplitLines(out)

\* the device names get_all_devices keeps of the name listing
DeviceNames(out) == NonEmpty(SplitLines(out))

\* the device record get_all_devices makes of a name and its detail lines
DeviceRecord(name, properties) ==
    [name |-> name, type |-> properties[1], mac |-> properties[2],
     mtu |-> properties[3]]

-----------------------------------------------------------------------------
(* Inputs. *)

\* all texts of at most n atoms over an alphabet
Texts(alphabet, n) == UNION {[1..k -> alphabet] : k \in 0..n}

\* what the executor may answer: exit code 0 with any of the outputs outs,
\* or a failure
Responses(outs) ==
    {[rc |-> 0, out |-> o, err |-> e] : o \in outs, e \in {<< >>}}
    \cup {[rc |-> 1, out |-> << >>, err |-> <<"Error:", SP, "failed">>],
          [rc |-> 10, out |-> <<"partial">>, err |-> << >>]}

\* answers to a command whose output is not parsed
PlainResponses ==
    Responses({<< >>, <<"Connection", SP, "successfully", SP, "added">>})

ConnectionsResponses == Responses(Texts({"a", COLON, NL}, MaxConnOutLen))
DeviceNamesResponses == Responses(Texts({"a", "b", NL}, MaxNamesOutLen))
DeviceDetailResponses == Responses(Texts({"x", NL}, MaxDetailOutLen))

BoolOpt == {None, PyBool(TRUE), PyBool(FALSE)}
MtuOpt == {None, PyInt(0), PyInt(1500)}
MiimonOpt == {None, PyInt(0), PyInt(100)}
MacOpt == {None, Word("aa:bb:cc:dd:ee:ff")}
ModeOpt == {None, Word("active-backup")}
VlanIds == {PyInt(0), PyInt(10)}
Ipv4MethodOpt == {None, Word("manual")}
Ipv4AddrOpt == {None, Word("192.168.23.2/24")}
Ipv4GwOpt == {None, Word("192.168.23.254")}
Ipv6MethodOpt == {None, Word("auto")}
Ipv6AddrOpt == {None, Word("2001:db8::2/64")}
Ipv6GwOpt == {None, Word("2001:db8::1")}

\* the IP keyword arguments of the add operations
IpInputs ==
    [ipv4_method : Ipv4MethodOpt, ipv4_addr : Ipv4AddrOpt,
     ipv4_gw : Ipv4GwOpt, ipv6_method : Ipv6MethodOpt,
     ipv6_addr : Ipv6AddrOpt, ipv6_gw : Ipv6GwOpt]

EthernetInputs ==
    {Override(ip, [name |-> Word("eth-test"), ifname |-> Word("eth0"),
                   auto_connect |-> ac, save |-> sv, mac |-> mac,
                   mtu |-> mtu]) :
        ip \in IpInputs, ac \in BoolOpt, sv \in BoolOpt, mac \in MacOpt,
        mtu \in MtuOpt}

BondInputs ==
    {Override(ip, [con_name |-> Word("bond-test"), ifname |-> Word("bond0"),
                   mode |-> mode, miimon |-> miimon,
                   auto_connect |-> ac, save |-> sv]) :
        ip \in IpInputs, ac \in BoolOpt, sv \in BoolOpt, mode \in ModeOpt,
        miimon \in MiimonOpt}

SlaveInputs ==
    [con_name : {Word("slave-test")},
     slave_type : {Word("ethernet"), Word("bond-slave")},
     ifname : {Word("eth1")}, master : {Word("bond0")},
     auto_connect : BoolOpt, save : BoolOpt]

VlanInputs ==
    {Override(ip, [con_name |-> Word("vlan-test"), dev |-> Word("eth0"),
                   vlan_id |-> id, mtu |-> mtu,
                   auto_connect |-> ac, save |-> sv]) :
        ip \in IpInputs, ac \in BoolOpt, sv \in BoolOpt, id \in VlanIds,
        mtu \in MtuOpt}

DummyInputs ==
    {Override(ip, [con_name |-> Word("dummy-test"), ifname |-> Word("dummy0"),
                   auto_connect |-> ac, save |-> sv]) :
        ip \in IpInputs, ac \in BoolOpt, sv \in BoolOpt}

ConnectionIds == {Word("eth-test"), Word("6a8a3f2c-uuid")}
States == {Word("up"), Word("down")}
DeviceIds == {Word("eth0")}

\* properties mappings for modify_connection / modify_device
PropertiesInputs ==
    {PyDict(<< >>),
     PyDict(<<Item("ipv4.method", Word("manual"))>>),
     PyDict(<<Item("+ipv4.addresses", Word("192.168.23.2")),
              Item("-ipv4.dns", Word("8.8.8.8"))>>),
     PyDict(<<Item("-ipv4.dns", Word("8.8.8.8")),
              Item("+ipv4.addresses", Word("192.168.23.2"))>>),
     PyDict(<<Item("mtu", PyInt(0)), Item("autoconnect", Word("no"))>>)}

-----------------------------------------------------------------------------
(* State machine: an NMCLI instance keeps nothing between calls but its    *)
(* executor, so every call starts in the state after construction; a       *)
(* behaviour is one call of one operation, from the call to its outcome.   *)

Init ==
    /\ pc = "idle"
    /\ op = "none"
    /\ args = None
    /\ command = << >>
    /\ calls = << >>
    /\ execOut = NoResult
    /\ status = "none"
    /\ result = NoResult
    /\ exc = NoExc
    /\ log = << >>
    /\ device_names = << >>
    /\ devices = << >>

\* an operation that makes one exec_command call and returns None
SingleCall(name, a, cmd, r) ==
    LET e == exec_command(cmd, r)
    IN  /\ pc' = "done"
        /\ op' = name
        /\ args' = a
        /\ command' = cmd
        /\ calls' = <<e.call>>
        /\ device_names' = << >>
        /\ devices' = << >>
        /\ IF e.raised
           THEN /\ status' = "raised"
                /\ exc' = e.exc
                /\ log' = <<e.logged>>
                /\ execOut' = NoResult
                /\ result' = NoResult
           ELSE /\ status' = "returned"
                /\ exc' = NoExc
                /\ log' = << >>
                /\ execOut' = e.out
                /\ result' = None

get_all_connections ==
    /\ pc = "idle"
    /\ \E r \in ConnectionsResponses :
        LET e == exec_command(ConnectionsCommand, r)
            parsed == ParseConnections(r.out)
        IN  /\ pc' = "done"
            /\ op' = "get_all_connections"
            /\ args' = None
            /\ command' = ConnectionsCommand
            /\ calls' = <<e.call>>
            /\ device_names' = << >>
            /\ devices' = << >>
            /\ IF e.raised
               THEN /\ status' = "raised"
                    /\ exc' = e.exc
                    /\ log' = <<e.logged>>
                    /\ execOut' = NoResult
                    /\ result' = NoResult
               ELSE /\ log' = << >>
                    /\ execOut' = e.out
                    /\ IF parsed.raised
                       THEN /\ status' = "raised"
                            /\ exc' = IndexError
                            /\ result' = NoResult
                       ELSE /\ status' = "returned"
                            /\ exc' = NoExc
                            /\ result' = parsed.value

\* get_all_devices up to the return of the name listing call
get_all_devices ==
    /\ pc = "idle"
    /\ \E r \in DeviceNamesResponses :
        LET e == exec_command(DeviceNamesCommand, r)
            names == DeviceNames(r.out)
        IN  /\ op' = "get_all_devices"
            /\ args' = None
            /\ command' = DeviceNamesCommand
            /\ calls' = <<e.call>>
            /\ devices' = << >>
            /\ IF e.raised
               THEN /\ pc' = "done"
                    /\ status' = "raised"
                    /\ exc' = e.exc
                    /\ log' = <<e.logged>>
                    /\ execOut' = NoResult
                    /\ result' = NoResult
                    /\ device_names' = << >>
               ELSE /\ log' = << >>
                    /\ execOut' = e.out
                    /\ exc' = NoExc
                    /\ device_names' = names
                    /\ IF names = << >>
                       THEN /\ pc' = "done"
                            /\ status' = "returned"
                            /\ result' = PyList(<< >>)
                       ELSE /\ pc' = "device_loop"
                            /\ status' = "running"
                            /\ result' = NoResult

\* the loop of get_all_devices catching the failure of a detail call: the
\* device is skipped and the loop carries on to a partial list
get_all_devices_detail_skips_failed ==
    /\ pc = "device_loop"
    /\ \E r \in DeviceDetailResponses :
        LET i == Len(devices) + 1
            name == device_names[i]
            cmd == DeviceDetailCommand(name)
            e == exec_command(cmd, r)
            properties == SplitLines(r.out)
            rest == SubSeq(device_names, 1, i - 1)
                      \o SubSeq(device_names, i + 1, Len(device_names))
        IN  /\ command' = cmd
            /\ calls' = Append(calls, e.call)
            /\ UNCHANGED <<op, args>>
            /\ IF e.raised
               THEN /\ device_names' = rest
                    /\ exc' = NoExc
                    /\ log' = Append(log, e.logged)
                    /\ execOut' = NoResult
                    /\ UNCHANGED devices
                    /\ IF Len(devices) = Len(rest)
                       THEN /\ pc' = "done"
                            /\ status' = "returned"
                            /\ result' = PyList(devices)
                       ELSE /\ pc' = "device_loop"
                            /\ status' = "running"
                            /\ UNCHANGED result
               ELSE /\ execOut' = e.out
                    /\ UNCHANGED <<log, device_names>>
                    /\ IF Len(properties) < 3
                       THEN /\ pc' = "done"
                            /\ status' = "raised"
                            /\ exc' = IndexError
                            /\ UNCHANGED <<devices, result>>
                       ELSE /\ devices' =
                                 Append(devices, DeviceRecord(name, properties))
                            /\ exc' = NoExc
                            /\ IF Len(devices') = Len(device_names)
                               THEN /\ pc' = "done"
                                    /\ status' = "returned"
                                    /\ result' = PyList(devices')
                               ELSE /\ pc' = "device_loop"
                                    /\ status' = "running"
                                    /\ UNCHANGED result

\* one iteration of the loop of get_all_devices: the detail call for the
\* next device name, and the return after the last one
get_all_devices_detail ==
    /\ pc = "device_loop"
    /\ \E r \in DeviceDetailResponses :
        LET name == device_names[Len(devices) + 1]
            cmd == DeviceDetailCommand(name)
            e == exec_command(cmd, r)
            properties == SplitLines(r.out)
        IN  /\ command' = cmd
            /\ calls' = Append(calls, e.call)
            /\ UNCHANGED <<op, args, device_names>>
            /\ IF e.raised
               THEN /\ pc' = "done"
                    /\ status' = "raised"
                    /\ exc' = e.exc
                    /\ log' = Append(log, e.logged)
                    /\ execOut' = NoResult
                    /\ UNCHANGED <<devices, result>>
               ELSE /\ execOut' = e.out
                    /\ UNCHANGED log
                    /\ IF Len(properties) < 3
                       THEN /\ pc' = "done"
                            /\ status' = "raised"
                            /\ exc' = IndexError
                            /\ UNCHANGED <<devices, result>>
                       ELSE /\ devices' =
                                 Append(devices, DeviceRecord(name, properties))
                            /\ exc' = NoExc
                            /\ IF Len(devices') = Len(device_names)
                               THEN /\ pc' = "done"
                                    /\ status' = "returned"
                                    /\ result' = PyList(devices')
                               ELSE /\ pc' = "device_loop"
                                    /\ status' = "running"
                                    /\ UNCHANGED result

set_connection_state ==
    /\ pc = "idle"
    /\ \E c \in ConnectionIds, st \in States, r \in PlainResponses :
        SingleCall("set_connection_state", [connection |-> c, state |-> st],
                   StateCommand(c, st), r)

add_ethernet_connection ==
    /\ pc = "idle"
    /\ \E a \in EthernetInputs, r \in PlainResponses :
        SingleCall("add_ethernet_connection", a, EthernetCommand(a), r)

add_bond ==
    /\ pc = "idle"
    /\ \E a \in BondInputs, r \in PlainResponses :
        SingleCall("add_bond", a, BondCommand(a), r)

add_slave ==
    /\ pc = "idle"
    /\ \E a \in SlaveInputs, r \in PlainResponses :
        SingleCall("add_slave", a, SlaveCommand(a), r)

add_vlan ==
    /\ pc = "idle"
    /\ \E a \in VlanInputs, r \in PlainResponses :
        SingleCall("add_vlan", a, VlanCommand(a), r)

add_dummy ==
    /\ pc = "idle"
    /\ \E a \in DummyInputs, r \in PlainResponses :
        SingleCall("add_dummy", a, DummyCommand(a), r)

modify_connection ==
    /\ pc = "idle"
    /\ \E c \in ConnectionIds, ps \in PropertiesInputs, r \in PlainResponses :
        SingleCall("modify_connection",
                   [connection |-> c, properties |-> ps],
                   ModifyCommand(Objects.CONNECTION, c, ps), r)

delete_connection ==
    /\ pc = "idle"
    /\ \E c \in ConnectionIds, r \in PlainResponses :
        SingleCall("delete_connection", [connection |-> c],
                   DeleteCommand(c), r)

modify_device ==
    /\ pc = "idle"
    /\ \E d \in DeviceIds, ps \in PropertiesInputs, r \in PlainResponses :
        SingleCall("modify_device", [device |-> d, properties |-> ps],
                   ModifyCommand(Objects.DEVICE, d, ps), r)

Next ==
    \/ get_all_connections
    \/ get_all_devices
    \/ get_all_devices_detail
    \/ set_connection_state
    \/ add_ethernet_connection
    \/ add_bond
    \/ add_slave
    \/ add_vlan
    \/ add_dummy
    \/ modify_connection
    \/ delete_connection
    \/ modify_device

Spec == Init /\ [][Next]_vars

TypeOK ==
    /\ pc \in {"idle", "device_loop", "done"}
    /\ status \in {"none", "running", "returned", "raised"}
    /\ Len(devices) <= Len(device_names)

-----------------------------------------------------------------------------
(* Vocabulary of the properties. *)

AddOps == {"add_ethernet_connection", "add_bond", "add_slave", "add_vlan",
           "add_dummy"}

\* the last executor round trip of the call
LastCall == calls[Len(calls)]

\* the argument vector the executor was last handed
Argv == LastCall.argv

Contains(argv, tok) == \E i \in 1..Len(argv) : argv[i] = tok

\* token k immediately followed by token v
HasPair(argv, k, v) ==
    \E i \in 1..(Len(argv) - 1) : argv[i] = k /\ argv[i + 1] = v

\* the command text has an empty token: it starts or ends with a space, or
\* has two spaces in a row
HasEmptyToken(cmd) ==
    \/ cmd = << >>
    \/ cmd[1] = SP
    \/ cmd[Len(cmd)] = SP
    \/ \E i \in 1..(Len(cmd) - 1) : cmd[i] = SP /\ cmd[i + 1] = SP

\* the keyword each optional parameter of the add operations is emitted under
OptionalKeyword ==
    [auto_connect |-> "autoconnect", save |-> "save", mac |-> "mac",
     mtu |-> "mtu", mode |-> "mode", miimon |-> "miimon",
     ipv4_method |-> "ipv4.method", ipv4_addr |-> "ipv4.addresses",
     ipv4_gw |-> "ipv4.gateway", ipv6_method |-> "ipv6.method",
     ipv6_addr |-> "ipv6.addresses", ipv6_gw |-> "ipv6.gateway"]

-----------------------------------------------------------------------------
C3_AbsenceOmission ==
    op \in AddOps =>
        \A f \in DOMAIN OptionalKeyword \cap DOMAIN args :
            IsNone(args[f]) =>
                /\ ~Contains(Argv, OptionalKeyword[f])
                /\ ~Contains(Argv, "None")
                /\ ~HasEmptyToken(command)

\* an add_ethernet_connection call with some optional parameters set and
\* others None
C3_Witness ==
    /\ op = "add_ethernet_connection"
    /\ IsNone(args.mtu)
    /\ IsNone(args.ipv6_gw)
    /\ IsNone(args.save)
    /\ ~IsNone(args.mac)
    /\ ~IsNone(args.ipv4_addr)

\* C4: in the command of an add operation, auto_connect (save) False gives
\* the pair `autoconnect no` (`save no`), True gives `autoconnect yes`
\* (`save yes`), and the keyword is absent exactly when the parameter is None.
C4_ExplicitFalseRendered ==
    op \in AddOps =>
        /\ args.auto_connect = PyBool(FALSE)
              => HasPair(Argv, "autoconnect", "no")
        /\ args.auto_connect = PyBool(TRUE)
              => HasPair(Argv, "autoconnect", "yes")
        /\ IsNone(args.auto_connect) <=> ~Contains(Argv, "autoconnect")
        /\ args.save = PyBool(FALSE) => HasPair(Argv, "save", "no")
        /\ args.save = PyBool(TRUE) => HasPair(Argv, "save", "yes")
        /\ IsNone(args.save) <=> ~Contains(Argv, "save")

\* an add_bond call with auto_connect False and save True
C4_Witness ==
    /\ op = "add_bond"
    /\ args.auto_connect = PyBool(FALSE)
    /\ args.save = PyBool(TRUE)

\* the option keywords of an add command: every second token after
\* `nmcli connection add`
Keywords(argv) == [i \in 1..((Len(argv) - 3) \div 2) |-> argv[2 + 2 * i]]

CommonKeywords == <<"type", "con-name", "ifname", "autoconnect", "save">>

\* the keys of the type options of each add operation, in insertion order
TypeKeywords ==
    [add_ethernet_connection |-> <<"mac", "mtu">>,
     add_bond |-> <<"mode", "miimon">>,
     add_slave |-> <<"master">>,
     add_vlan |-> <<"dev", "id", "mtu">>,
     add_dummy |-> << >>]

IpKeywords == <<"ipv4.method", "ipv6.method", "ipv4.addresses",
                "ipv4.gateway", "ipv6.addresses", "ipv6.gateway">>

\* the position of keyword k in the sequence order, 0 when it is not there
Position(order, k) ==
    IF \E i \in 1..Len(order) : order[i] = k
    THEN CHOOSE i \in 1..Len(order) : order[i] = k
    ELSE 0

\* C5: the option keywords of an add command appear in the order type,
\* con-name, ifname, autoconnect, save, then the type-option keys in
\* insertion order, then ipv4.method, ipv6.method, ipv4.addresses,
\* ipv4.gateway, ipv6.addresses, ipv6.gateway; every type-option keyword
\* precedes every IP-option keyword.
C5_OptionOrder ==
    op \in AddOps =>
        LET order == CommonKeywords \o TypeKeywords[op] \o IpKeywords
            kws == Keywords(Argv)
        IN  /\ SubSeq(Argv, 1, 3) = <<"nmcli", "connection", "add">>
            /\ Len(Argv) = 3 + 2 * Len(kws)
            /\ SubSeq(kws, 1, 3) = <<"type", "con-name", "ifname">>
            /\ \A i \in 1..Len(kws) : Position(order, kws[i]) > 0
            /\ \A i \in 1..(Len(kws) - 1) :
                  Position(order, kws[i]) < Position(order, kws[i + 1])
            /\ \A i, j \in 1..Len(kws) :
                  (Contains(TypeKeywords[op], kws[i])
                     /\ Contains(IpKeywords, kws[j])) => i < j

\* an add_vlan call with its optional type option and every IP option set
C5_Witness ==
    /\ op = "add_vlan"
    /\ ~IsNone(args.mtu) /\ Truthy(args.mtu)
    /\ ~IsNone(args.auto_connect)
    /\ \A f \in DOMAIN IpArgs(args) : ~IsNone(args[f])

\* the text " <keyword> <value>" when the value is not None, else nothing
IfSet(keyword, value) ==
    IF IsNone(value) THEN << >> ELSE <<SP, keyword, SP>> \o Format(value)

\* the text " <keyword> yes|no" when the flag is not None, else nothing
IfSetYesNo(keyword, flag) ==
    IF IsNone(flag) THEN << >>
    ELSE <<SP, keyword, SP, IF flag.v THEN "yes" ELSE "no">>

\* the command line C6 gives for add_ethernet_connection with arguments a
EthernetReference(a) ==
    <<"nmcli", SP, "connection", SP, "add", SP, "type", SP, "ethernet", SP,
      "con-name", SP>> \o Format(a.name) \o <<SP, "ifname", SP>>
      \o Format(a.ifname)
      \o IfSetYesNo("autoconnect", a.auto_connect)
      \o IfSetYesNo("save", a.save)
      \o IfSet("mac", a.mac)
      \o IfSet("mtu", a.mtu)
      \o IfSet("ipv4.method", a.ipv4_method)
      \o IfSet("ipv6.method", a.ipv6_method)
      \o IfSet("ipv4.addresses", a.ipv4_addr)
      \o IfSet("ipv4.gateway", a.ipv4_gw)
      \o IfSet("ipv6.addresses", a.ipv6_addr)
      \o IfSet("ipv6.gateway", a.ipv6_gw)

\* C6: the command add_ethernet_connection hands to exec_command is the
\* reference line: the fixed head, then autoconnect, save, mac, mtu and the
\* IP options, each present exactly when its parameter is set.
C6_EthernetExactCommand ==
    op = "add_ethernet_connection" => command = EthernetReference(args)

-----------------------------------------------------------------------------
(* Lines and fields of a text by the positions of the separators.          *)

\* the positions of the atom sep in t
Seps(t, sep) == {i \in 1..Len(t) : t[i] = sep}

\* the k-th smallest element of a set of numbers
Kth(S, k) == CHOOSE x \in S : Cardinality({y \in S : y < x}) = k - 1

\* the i-th segment of t between the separators sep
Segment(t, sep, i) ==
    LET S == Seps(t, sep)
        lo == IF i = 1 THEN 0 ELSE Kth(S, i - 1)
        hi == IF i <= Cardinality(S) THEN Kth(S, i) ELSE Len(t) + 1
    IN  SubSeq(t, lo + 1, hi - 1)

\* the number of lines of t: one per line break, and one more for text
\* after the last line break
NumLines(t) ==
    Cardinality(Seps(t, NL))
        + (IF t # << >> /\ t[Len(t)] # NL THEN 1 ELSE 0)

\* the lines of t
Lines(t) == [i \in 1..NumLines(t) |-> Segment(t, NL, i)]

\* the number of colon-separated fields of a line
NumFields(line) == Cardinality(Seps(line, COLON)) + 1

C7_WitnessTwoLines ==
    /\ op = "get_all_connections"
    /\ status = "returned"
    /\ result.k = "list"
    /\ Len(result.v) = 2

\* the non-blank lines of the name listing, in order
ListedNames == SelectSeq(Lines(calls[1].out), LAMBDA l : l # << >>)

\* get_all_devices has ended and every executor call it made exited 0
DevicesAllCallsOk ==
    /\ op = "get_all_devices"
    /\ pc = "done"
    /\ \A i \in 1..Len(calls) : calls[i].rc = 0

\* the calls of get_all_devices are the name listing and then one detail
\* call per listed name, in order; the result has one record per name, in
\* order, with the name and the first three detail lines as type, mac, mtu
DevicesOnePerName ==
    LET names == ListedNames
        N == Len(names)
    IN  /\ Len(calls) = 1 + N
        /\ calls[1].argv =
             <<"nmcli", "-g", "GENERAL.DEVICE", "device", "show">>
        /\ \A i \in 1..N :
             calls[1 + i].argv =
               <<"nmcli", "-e", "no", "-g",
                 "GENERAL.TYPE,GENERAL.HWADDR,GENERAL.MTU",
                 "device", "show", JoinAtoms(names[i])>>
        /\ status = "returned"
        /\ result.k = "list"
        /\ Len(result.v) = N
        /\ \A i \in 1..N :
             /\ NumLines(calls[1 + i].out) >= 3
             /\ result.v[i] =
                  [name |-> names[i],
                   type |-> Segment(calls[1 + i].out, NL, 1),
                   mac |-> Segment(calls[1 + i].out, NL, 2),
                   mtu |-> Segment(calls[1 + i].out, NL, 3)]

\* C8 as stated: when every executor call exits 0 and the name listing has
\* N non-blank lines, get_all_devices makes exactly 1 + N calls, the listing
\* and then one detail call per name in order, and returns N records in that
\* order, each with its name and the three detail lines as type, mac, mtu.
C8_DevicesOnePerName ==
    DevicesAllCallsOk => DevicesOnePerName

\* C8, amended: the same, when moreover every detail call made returned at
\* least three lines of output (the first three are type, mac, mtu).
C8_DevicesOnePerNameThreeLines ==
    (DevicesAllCallsOk
       /\ \A i \in 2..Len(calls) : NumLines(calls[i].out) >= 3)
    => DevicesOnePerName

\* a listing of two names gave three calls and two records
C8_Witness ==
    /\ DevicesAllCallsOk
    /\ Len(ListedNames) = 2
    /\ ListedNames[1] # ListedNames[2]
    /\ Len(calls) = 3
    /\ status = "returned"
    /\ Len(result.v) = 2

\* a listing with a blank line and one name gave two calls and one record
C8_WitnessBlankLine ==
    /\ DevicesAllCallsOk
    /\ Len(ListedNames) = 1
    /\ NumLines(calls[1].out) > 1
    /\ Len(calls) = 2
    /\ status = "returned"

\* C9: add_vlan with vlan_id 0 builds a command with the pair `id 0`, next
\* to `dev <dev>`.
C9_VlanIdZeroKept ==
    (op = "add_vlan" /\ args.vlan_id = PyInt(0)) =>
        /\ HasPair(Argv, "id", "0")
        /\ HasPair(Argv, "dev", JoinAtoms(Format(args.dev)))

\* an add_vlan call with vlan_id 0
C9_Witness ==
    /\ op = "add_vlan"
    /\ args.vlan_id = PyInt(0)
    /\ IsNone(args.mtu)

\* C10: an optional numeric parameter given as 0 is emitted: mtu 0 of
\* add_ethernet_connection and add_vlan gives `mtu 0`, miimon 0 of add_bond
\* gives `miimon 0`; the keyword is omitted only when the parameter is None.
C10_ZeroIsEmitted ==
    /\ op \in {"add_ethernet_connection", "add_vlan"} =>
          /\ args.mtu = PyInt(0) => HasPair(Argv, "mtu", "0")
          /\ ~Contains(Argv, "mtu") => IsNone(args.mtu)
    /\ op = "add_bond" =>
          /\ args.miimon = PyInt(0) => HasPair(Argv, "miimon", "0")
          /\ ~Contains(Argv, "miimon") => IsNone(args.miimon)

-----------------------------------------------------------------------------
\* the object type, operation and identifier of a modify or delete call
ModDelHead ==
    CASE op = "modify_connection" ->
           <<"nmcli", "connection", "modify",
             JoinAtoms(Format(args.connection))>>
      [] op = "delete_connection" ->
           <<"nmcli", "connection", "delete",
             JoinAtoms(Format(args.connection))>>
      [] op = "modify_device" ->
           <<"nmcli", "device", "modify", JoinAtoms(Format(args.device))>>

\* the entries of the properties mapping of a modify call, in insertion
\* order (none for delete_connection)
ModDelEntries ==
    IF op = "delete_connection" THEN << >> ELSE args.properties.v

\* C11: the command of delete_connection, modify_connection and
\* modify_device is `nmcli <object_type> <operation> <identifier>`, the bare
\* identifier being the fourth token; delete_connection emits nothing after
\* it, the modify operations emit after it exactly one `<key> <value>` pair
\* per entry of properties, in insertion order, keys unchanged, and no other
\* token (no type, con-name, ifname, autoconnect or save of the common
\* options).
C11_ModifyDeleteCommand ==
    op \in {"modify_connection", "delete_connection", "modify_device"} =>
        LET entries == ModDelEntries
            n == Len(entries)
        IN  /\ Len(calls) = 1
            /\ Len(Argv) = 4 + 2 * n
            /\ SubSeq(Argv, 1, 4) = ModDelHead
            /\ \A i \in 1..n :
                  /\ Argv[3 + 2 * i] = entries[i].key
                  /\ Argv[4 + 2 * i] = JoinAtoms(Format(entries[i].value))
            /\ \A kw \in {"type", "con-name", "ifname", "autoconnect", "save"} :
                  Contains(Argv, kw) =>
                    \E i \in 1..n : entries[i].key = kw
            /\ ~HasEmptyToken(command)

\* a modify_connection call with a `+` and a `-` prefixed key, in that order
C11_Witness ==
    /\ op = "modify_connection"
    /\ Len(args.properties.v) = 2
    /\ args.properties.v[1].key = "+ipv4.addresses"
    /\ args.properties.v[2].key = "-ipv4.dns"

\* a delete_connection call
C11_WitnessDelete ==
    /\ op = "delete_connection"
    /\ Len(Argv) = 4

-----------------------------------------------------------------------------
\* the executor has answered a call of the operation with a non-zero exit
SomeCallFailed == \E i \in 1..Len(calls) : calls[i].rc # 0

\* only the last executor call made can have failed, and then the operation
\* has ended with that failure and no result
FailureIsFinal ==
    /\ \A i \in 1..(Len(calls) - 1) : calls[i].rc = 0
    /\ SomeCallFailed =>
          /\ pc = "done"
          /\ status = "raised"
          /\ exc.type = "CommandExecutionFailure"
          /\ exc.rc = LastCall.rc
          /\ exc.cmd = LastCall.argv
          /\ result = NoResult

\* the calls of get_all_devices so far are the name listing and then the
\* detail calls of the first listed names, one each, in order
DevicesCallsArePrefix ==
    op = "get_all_devices" =>
        /\ Len(calls) >= 1
        /\ calls[1].argv =
             <<"nmcli", "-g", "GENERAL.DEVICE", "device", "show">>
        /\ calls[1].rc # 0 => Len(calls) = 1
        /\ calls[1].rc = 0 =>
             /\ Len(calls) <= 1 + Len(ListedNames)
             /\ \A i \in 1..(Len(calls) - 1) :
                   calls[1 + i].argv[8] = JoinAtoms(ListedNames[i])

\* every other operation has made exactly one executor call
OthersCallOnce ==
    (op # "none" /\ op # "get_all_devices") => Len(calls) = 1

\* a step hands one more command to the executor and leaves the earlier
\* round trips as they were; after a failed call there is no step
OneMoreCall ==
    /\ ~SomeCallFailed
    /\ Len(calls') = Len(calls) + 1
    /\ SubSeq(calls', 1, Len(calls)) = calls

\* C12: no retries.  Each command is handed to the executor once, and as
\* soon as an executor call of get_all_devices (the name listing or the k-th
\* detail call) returns a non-zero exit code the operation raises the
\* failure, makes no further executor call for the remaining devices and
\* returns no partial list.
C12_NoRetries ==
    /\ [](FailureIsFinal /\ DevicesCallsArePrefix /\ OthersCallOnce)
    /\ [][OneMoreCall]_vars

\* the detail call of the first of two devices failed: the second device
\* was never asked about and nothing was returned
C12_Witness ==
    /\ op = "get_all_devices"
    /\ calls[1].rc = 0
    /\ Len(ListedNames) = 2
    /\ Len(calls) = 2
    /\ calls[2].rc # 0
    /\ pc = "done"
    /\ result = NoResult

\* the detail call of the second of two devices failed after the first
\* device's record was made: no partial list was returned
C12_WitnessPartial ==
    /\ op = "get_all_devices"
    /\ Len(calls) = 3
    /\ calls[3].rc # 0
    /\ Len(devices) = 1
    /\ pc = "done"
    /\ result = NoResult

-----------------------------------------------------------------------------
\* the connection listing exited 0 and some line of its output has fewer
\* than four colon-separated fields
ConnectionsShortLine ==
    /\ op = "get_all_connections"
    /\ calls[1].rc = 0
    /\ \E i \in 1..NumLines(calls[1].out) :
          NumFields(Lines(calls[1].out)[i]) < 4

\* the record with every field empty
EmptyConnectionRecord ==
    [name |-> << >>, uuid |-> << >>, type |-> << >>, device |-> << >>]

\* C13 as stated: when the connection listing exits 0 but some output line
\* has fewer than four colon-separated fields, get_all_connections does not
\* raise and yields an empty record for that line.
C13_ShortLineSilent ==
    ConnectionsShortLine =>
        /\ status = "returned"
        /\ exc = NoExc
        /\ result.k = "list"
        /\ Len(result.v) = NumLines(calls[1].out)
        /\ \A i \in 1..NumLines(calls[1].out) :
              NumFields(Lines(calls[1].out)[i]) < 4
                => result.v[i] = EmptyConnectionRecord

\* C13, amended: when the connection listing exits 0 but some output line
\* has fewer than four colon-separated fields, get_all_connections raises
\* an IndexError after its one executor call: it returns no list, not even
\* the records of the well-formed lines, and logs nothing.
C13_ShortLineRaises ==
    ConnectionsShortLine =>
        /\ pc = "done"
        /\ status = "raised"
        /\ exc = IndexError
        /\ result = NoResult
        /\ Len(calls) = 1
        /\ log = << >>

\* a listing whose first line has four fields and whose second has one
C13_Witness ==
    /\ ConnectionsShortLine
    /\ NumLines(calls[1].out) = 2
    /\ NumFields(Lines(calls[1].out)[1]) = 4
    /\ NumFields(Lines(calls[1].out)[2]) = 1
    /\ status = "raised"

====
